---- MODULE Spec2Model ----
(***************************************************************************)
(* A model of goGFS: the client driver (client.go), the chunk server       *)
(* (chunkserver) and the coordinator's chunk-server manager, all three in  *)
(* src/src/gfs/client/client.go, and the fan-out helper of                  *)
(* src/gfs/util/util.go.  The coordinator's namespace, chunk directory and *)
(* leases and the download buffer are not part of the sources; they are    *)
(* modelled from spec.md (sections 4.2 and 4.6).                           *)
(*                                                                         *)
(* Granularity: every section of a handler that runs under the chunk lock  *)
(* is one atomic step; a handler that releases the lock and takes it again *)
(* (commit, then doMutation) is two steps, so that other handlers can run  *)
(* in between, as they can in the program.                                 *)
(***************************************************************************)
EXTENDS Integers, Sequences, FiniteSets, TLC

\* ------------------------------------------------------------ constants
\* gfs.MaxChunkSize and gfs.MaxAppendSize (package gfs), scaled down; the
\* ratio MaxAppendSize = MaxChunkSize / 4 is the program's.
MaxChunkSize == 8
MaxAppendSize == 2
ReplicationFactor == 2

\* ------------------------------------------------------------ bounds
MaxOps == 2
MaxChunks == 3
MaxFail == 1
MaxExpire == 1
MaxRemove == 1
MaxCopy == 2

Servers == {"s1", "s2"}
Clients == {"c1", "c2"}
Handles == 1..(MaxChunks + 1)
NoServer == "none"

\* The (offset, length) pairs a client writes, and reads.
WriteMenu == {<<6, 1>>, <<7, 2>>}
ReadMenu == {<<6, 1>>}

VARIABLES
    chunk,       \* chunk[s][h]: ChunkServer.chunk, with the backing file
    dl,          \* dl[s]: the download buffer of server s
    ple,         \* ple[s]: ChunkServer.pendingLeaseExtensions
    fileChunks,  \* coordinator: the file's chunk handles, in order
    replicas,    \* coordinator: replicas[h], the replica set of a handle
    lease,       \* coordinator: lease[h], the primary or NoServer
    csm,         \* chunkServerManager.servers: csm[s] = [reg, chunks]
    cl,          \* cl[c]: the client's running operation and its position
    rpc,         \* rpc[c][s]: the ApplyMutation call of c's commit to s
    nops,        \* operations started so far
    fails,       \* transport failures so far
    expires,     \* lease expiries so far
    appended,    \* the record appends that returned success
    committed,   \* the mutations primaries have assigned a version to
    mgr,         \* chunkServerManager: its lock and the call that holds it
    copy,        \* the coordinator's re-replication: its position and log
    ca,          \* one run of util.CallAll: its goroutines and its channel
    alloc        \* the coordinator's allocation of a chunk: its position

vars == <<chunk, dl, ple, fileChunks, replicas, lease, csm, cl, rpc,
          nops, fails, expires, appended, committed, mgr, copy, ca,
          alloc>>

Max(a, b) == IF a > b THEN a ELSE b
Min(a, b) == IF a < b THEN a ELSE b

\* The bytes of operation id: every operation writes its own byte value.
Data(id, len) == [i \in 1..len |-> id]

\* ------------------------------------------------------------ disk
\* os.File.WriteAt: writes nothing for empty data, else extends the file
\* with zero bytes up to offset.
WriteAt(file, data, offset) ==
    IF Len(data) = 0 THEN file
    ELSE [i \in 1..Max(Len(file), offset + Len(data)) |->
            IF i > offset /\ i <= offset + Len(data) THEN data[i - offset]
            ELSE IF i <= Len(file) THEN file[i]
            ELSE 0]

\* os.File.ReadAt into a buffer of n bytes: the bytes read, and io.EOF
\* when fewer than n were read.
ReadAt(file, offset, n) ==
    LET got == Max(0, Min(n, Len(file) - offset))
    IN [data |-> SubSeq(file, offset + 1, offset + got), eof |-> got < n]

\* ------------------------------------------------------------ chunk server
\* A chunkInfo and its backing file.  locked: the chunk lock is held by a
\* handler that has returned.  drained: the versions doMutation has written,
\* in the order it wrote them (kept for the claims; the program has no such
\* field).
NoChunk == [present |-> FALSE, length |-> 0, version |-> 0, newestVersion |-> 0,
            mutations |-> {}, file |-> <<>>, locked |-> FALSE, drained |-> <<>>]

\* A create that starts the chunk afresh whether or not it exists.
RPCCreateChunkAfresh(ck) == [NoChunk EXCEPT !.present = TRUE]

\* RPCCreateChunk: an existing entry is left alone.
RPCCreateChunk(ck) ==
    IF ck.present THEN ck
    ELSE [NoChunk EXCEPT !.present = TRUE]

\* A write that records the end of its own data as the length.
writeChunkSetLength(ck, version, data, offset) ==
    [ck EXCEPT !.length = offset + Len(data),
               !.version = version,
               !.file = WriteAt(@, data, offset)]

\* ChunkServer.writeChunk
writeChunk(ck, version, data, offset) ==
    LET newLen == offset + Len(data)
    IN [ck EXCEPT !.length = IF newLen > @ THEN newLen ELSE @,
                  !.version = version,
                  !.file = WriteAt(@, data, offset)]

\* A loop that applies the lowest buffered version whether or not it is
\* version + 1: what doMutation would do if it did not look up the successor.
RECURSIVE drainLowest(_)
drainLowest(ck) ==
    IF ck.mutations = {} THEN ck
    ELSE LET v == CHOOSE m \in ck.mutations :
                      \A n \in ck.mutations : m.version <= n.version
             w == IF v.mtype = "Pad"
                  THEN writeChunk(ck, v.version, <<0>>, MaxChunkSize - 1)
                  ELSE writeChunk(ck, v.version, v.data, v.offset)
         IN drainLowest([w EXCEPT !.mutations = @ \ {v},
                                  !.drained = Append(@, v.version)])

\* The loop of doMutation: apply mutations[version + 1] while there is one.
RECURSIVE drain(_)
drain(ck) ==
    LET nxt == {m \in ck.mutations : m.version = ck.version + 1}
    IN IF nxt = {} THEN ck
       ELSE LET v == CHOOSE m \in nxt : TRUE
                w == IF v.mtype = "Pad"
                     THEN writeChunk(ck, v.version, <<0>>, MaxChunkSize - 1)
                     ELSE writeChunk(ck, v.version, v.data, v.offset)
            IN drain([w EXCEPT !.mutations = @ \ {v},
                               !.drained = Append(@, v.version)])

\* ChunkServer.doMutation
doMutation(ck) ==
    LET d == drain(ck)
    IN IF d.mutations = {} THEN [d EXCEPT !.newestVersion = d.version] ELSE d

HasVersion(ck, v) == \E m \in ck.mutations : m.version = v

\* ChunkServer.deleteDownloadedData: the staged data, or <<>> and not ok.
Staged(s, did) == {e \in dl[s] : e.id = did}

\* nextVersion, the duplicate check and the insertion, as RPCWriteChunk and
\* RPCAppendChunk do them under the chunk lock.  A duplicate returns with the
\* lock still held.
BufferNew(ck, mtype, data, offset) ==
    LET version == ck.newestVersion + 1
        ck1 == [ck EXCEPT !.newestVersion = version]
    IN IF HasVersion(ck1, version)
       THEN [ck1 EXCEPT !.locked = TRUE]
       ELSE [ck1 EXCEPT !.mutations = @ \cup
               {[mtype |-> mtype, version |-> version, data |-> data, offset |-> offset]}]

\* The locked section of RPCWriteChunk.
WriteSection(ck, data, offset) ==
    LET newLen == offset + Len(data)
    IN BufferNew([ck EXCEPT !.length = IF newLen > @ THEN newLen ELSE @],
                 "Write", data, offset)

\* RPCAppendChunk's size check.
PrimaryAppendTooLarge(n) == n > MaxAppendSize

\* An election that never pads.
AppendKindNoPad(length, n) == "Append"

AppendKindPadWhenFull(length, n) ==
    IF length + n >= MaxChunkSize THEN "Pad" ELSE "Append"

\* A client check that also refuses data of exactly MaxAppendSize bytes.
AppendTooLargeStrict(len) == len >= MaxAppendSize

\* The election of RPCAppendChunk: Pad when the record does not fit.
AppendKind(length, n) == IF length + n > MaxChunkSize THEN "Pad" ELSE "Append"

\* The locked section of RPCAppendChunk.
AppendSection(ck, data) ==
    LET mtype == AppendKind(ck.length, Len(data))
        newLen == ck.length + Len(data)
    IN BufferNew([ck EXCEPT !.length = IF mtype = "Pad" THEN MaxChunkSize ELSE newLen],
                 mtype, data, ck.length)

\* The locked section of RPCApplyMutation.
ApplySection(ck, mtype, version, data, offset) ==
    IF HasVersion(ck, version)
    THEN [ck EXCEPT !.locked = TRUE]
    ELSE [ck EXCEPT !.mutations = @ \cup
            {[mtype |-> mtype, version |-> version, data |-> data, offset |-> offset]}]

\* RPCSendCopy up to its call: the whole chunk is read into a buffer of
\* length bytes, and a read error (the file is shorter than length), an
\* unknown handle or version # newestVersion ends it with an error.
SendCopyData(ck) == ReadAt(ck.file, 0, ck.length)

SendCopyRefuses(ck) ==
    \/ ~ck.present
    \/ SendCopyData(ck).eof
    \/ ck.version # ck.newestVersion

\* A copy that is laid after the bytes the target has.
RPCApplyCopyAtEnd(ck, data, version) ==
    writeChunk([ck EXCEPT !.mutations = {}], version, data, Len(ck.file))

\* RPCApplyCopy on a chunk the target has: the mutation buffer is cleared
\* and the data written at offset 0 as the given version.
RPCApplyCopy(ck, data, version) ==
    writeChunk([ck EXCEPT !.mutations = {}], version, data, 0)

\* ------------------------------------------------------------ client
NoOp == [kind |-> "none", id |-> 0, off0 |-> 0, len |-> 0, res |-> "none",
         ret |-> 0]

Idle == [pc |-> "idle", kind |-> "none", id |-> 0, off0 |-> 0, off |-> 0,
         len |-> 0, chunks |-> 0, pos |-> 0, idx |-> 0, h |-> 0, prim |-> NoServer,
         secs |-> {}, tries |-> 0, did |-> <<>>, wlen |-> 0, ver |-> 0, moff |-> 0,
         mtype |-> "none", code |-> "none", res |-> "none", ret |-> 0,
         rdata |-> <<>>, prev |-> NoOp, got |-> {}]

\* The kind, arguments and result of a client's latest operation.
Last(r) == [kind |-> r.kind, id |-> r.id, off0 |-> r.off0, len |-> r.len,
            res |-> r.res, ret |-> r.ret]

\* What a finished operation leaves behind: its kind, arguments and result,
\* and those of the operation before it.
Finished(r, res, ret, rdata) ==
    [Idle EXCEPT !.kind = r.kind, !.id = r.id, !.off0 = r.off0, !.len = r.len,
                 !.chunks = r.chunks, !.res = res, !.ret = ret, !.rdata = rdata, !.prev = r.prev]

\* A new operation of client c, its GetFileInfo call done.  chunks is the
\* chunk count a read was told (a write and an append use it at once, in
\* their offset check and for start).
Begin(c, kind, off, len) ==
    [Idle EXCEPT !.pc = "handle", !.kind = kind, !.id = nops + 1, !.off0 = off,
                 !.off = off, !.len = len,
                 !.chunks = IF kind = "read" THEN Len(fileChunks) ELSE 0,
                 !.prev = Last(cl[c])]

\* util.CallAll not running.
NoCallAll == [pc |-> "none", dst |-> <<>>, next |-> 1, g |-> <<>>,
              res |-> <<>>, recvd |-> 0, err |-> "nil"]

\* No allocation runs.  addrs is what ChooseServers returned, errs whether a
\* CreateChunk call of AddChunk failed, res the result of AddChunk.
NoAlloc == [pc |-> "idle", h |-> 0, addrs |-> {}, errs |-> FALSE, res |-> "none"]

\* chunkServerManager at rest: nobody holds its lock.  op is the method that
\* holds it, todo the addresses AddChunk has still to call, call the address
\* whose RPCCreateChunk is in flight, res the result of the last method
\* ("panic" when it ended the process).
IdleMgr == [lock |-> FALSE, op |-> "none", h |-> 0, todo |-> {}, call |-> NoServer,
            res |-> "none", from |-> NoServer, to |-> NoServer]

\* No re-replication has run.  last is the latest RPCSendCopy: its source, its
\* target, the handle, its result, and the chunks of both before it.
NoCopy == [pc |-> "idle", h |-> 0, from |-> NoServer, to |-> NoServer,
           removed |-> 0, sent |-> 0, last |-> <<>>]

Init ==
    /\ chunk = [s \in Servers |-> [h \in Handles |-> NoChunk]]
    /\ dl = [s \in Servers |-> {}]
    /\ ple = [s \in Servers |-> {}]
    /\ fileChunks = <<>>
    /\ replicas = [h \in Handles |-> {}]
    /\ lease = [h \in Handles |-> NoServer]
    /\ csm = [s \in Servers |-> [reg |-> TRUE, chunks |-> {}]]
    /\ cl = [c \in Clients |-> Idle]
    /\ rpc = [c \in Clients |-> [s \in Servers |-> "none"]]
    /\ nops = 0
    /\ fails = 0
    /\ expires = 0
    /\ appended = {}
    /\ committed = {}
    /\ mgr = IdleMgr
    /\ copy = NoCopy
    /\ alloc = NoAlloc
    /\ ca = NoCallAll

\* ------------------------------------------------------------ coordinator
\* chunkServerManager.ChooseServers: the sets of num registered servers.
ChooseServers(num) ==
    {S \in SUBSET {s \in Servers : csm[s].reg} : Cardinality(S) = num}

\* GetChunkHandle(path, index) on the coordinator, for the client at "handle":
\* an existing index answers its handle; index = chunkCount allocates a handle,
\* creates the chunk on the chosen servers (AddChunk), extends the file and
\* grants the lease to one of them; index > chunkCount is rejected.
GetChunkHandle(c) ==
    LET r == cl[c]
        next == IF r.kind = "read" THEN "read" ELSE "prim"
    IN
    /\ r.pc = "handle"
    /\ r.idx < Len(fileChunks) \/ ~mgr.lock
    /\ IF r.idx < Len(fileChunks)
       THEN /\ cl' = [cl EXCEPT ![c].h = fileChunks[r.idx + 1], ![c].pc = next]
            /\ UNCHANGED <<chunk, fileChunks, replicas, lease, csm>>
       ELSE IF r.idx > Len(fileChunks) \/ ChooseServers(ReplicationFactor) = {}
       THEN /\ cl' = [cl EXCEPT ![c] = Finished(r, "err", 0, <<>>)]
            /\ UNCHANGED <<chunk, fileChunks, replicas, lease, csm>>
       ELSE LET h == Len(fileChunks) + 1 IN
            /\ h <= MaxChunks
            /\ \E S \in ChooseServers(ReplicationFactor) : \E p \in S :
                 /\ chunk' = [s \in Servers |->
                               IF s \in S
                               THEN [chunk[s] EXCEPT ![h] = RPCCreateChunk(@)]
                               ELSE chunk[s]]
                 /\ csm' = [s \in Servers |->
                             IF s \in S
                             THEN [csm[s] EXCEPT !.chunks = @ \cup {h}]
                             ELSE csm[s]]
                 /\ replicas' = [replicas EXCEPT ![h] = S]
                 /\ lease' = [lease EXCEPT ![h] = p]
            /\ fileChunks' = Append(fileChunks, h)
            /\ cl' = [cl EXCEPT ![c].h = h, ![c].pc = next]
    /\ UNCHANGED <<dl, ple, rpc, nops, fails, expires, appended, committed,
                   mgr, copy, ca, alloc>>

\* A lease runs out.  Only GetPrimaryAndSecondaries reads the lease, so the
\* expiry is taken when a client is about to ask for the primary of h.
LeaseExpire(h) ==
    /\ lease[h] # NoServer
    /\ \E c \in Clients : cl[c].pc = "prim" /\ cl[c].h = h
    /\ expires < MaxExpire
    /\ lease' = [lease EXCEPT ![h] = NoServer]
    /\ expires' = expires + 1
    /\ UNCHANGED <<chunk, dl, ple, fileChunks, replicas, csm, cl, rpc,
                   nops, fails, appended, committed,
                   mgr, copy, ca, alloc>>

\* ------------------------------------------------------------ client driver
\* A client starts an operation when it runs none.  The clients are
\* interchangeable, so the first operation of a run is c1's.
CanStart(c) ==
    /\ cl[c].pc = "idle"
    /\ nops < MaxOps
    /\ c = "c1" \/ cl["c1"].kind # "none"

\* Client.Append's size check.
AppendTooLarge(len) == len > MaxAppendSize

\* Client.Read's and Client.Write's offset check against GetFileInfo's count.
OffsetExceeds(off, chunks) == off \div MaxChunkSize > chunks

\* Client.Write up to its loop: GetFileInfo and the offset check.
WriteStart(c) ==
    /\ CanStart(c)
    /\ \E w \in WriteMenu :
         LET b == [Begin(c, "write", w[1], w[2]) EXCEPT !.idx = w[1] \div MaxChunkSize]
         IN cl' = [cl EXCEPT ![c] = IF OffsetExceeds(w[1], Len(fileChunks))
                                    THEN Finished(b, "err", 0, <<>>)
                                    ELSE b]
    /\ nops' = nops + 1
    /\ UNCHANGED <<chunk, dl, ple, fileChunks, replicas, lease, csm, rpc,
                   fails, expires, appended, committed,
                   mgr, copy, ca, alloc>>

\* Client.Read up to its loop: GetFileInfo and the offset check, for an
\* (offset, length) pair of menu.
ReadStartOf(c, menu) ==
    /\ CanStart(c)
    /\ \E w \in menu :
         LET b == [Begin(c, "read", w[1], w[2]) EXCEPT !.idx = w[1] \div MaxChunkSize]
         IN cl' = [cl EXCEPT ![c] = IF OffsetExceeds(w[1], Len(fileChunks))
                                    THEN Finished(b, "err", 0 - 1, <<>>)
                                    ELSE b]
    /\ nops' = nops + 1
    /\ UNCHANGED <<chunk, dl, ple, fileChunks, replicas, lease, csm, rpc,
                   fails, expires, appended, committed,
                   mgr, copy, ca, alloc>>

ReadStart(c) == ReadStartOf(c, ReadMenu)

\* Client.Append refusing data longer than MaxAppendSize, before any call.
AppendReject(c) ==
    /\ CanStart(c)
    /\ \E len \in 1..(MaxAppendSize + 1) :
         /\ AppendTooLarge(len)
         /\ cl' = [cl EXCEPT ![c] = Finished(Begin(c, "append", 0, len), "err", 0, <<>>)]
    /\ nops' = nops + 1
    /\ UNCHANGED <<chunk, dl, ple, fileChunks, replicas, lease, csm, rpc,
                   fails, expires, appended, committed,
                   mgr, copy, ca, alloc>>

\* An append that starts at the file's first chunk.
AppendStartAtFirst(chunks) == 0

\* start := ChunkIndex(f.Chunks - 1); if start < 0 { start = 0 }
AppendStartIndex(chunks) == IF chunks - 1 < 0 THEN 0 ELSE chunks - 1

\* Client.Append up to its loop: start is the last chunk, or 0.
AppendStart(c) ==
    /\ CanStart(c)
    /\ \E len \in 1..(MaxAppendSize + 1) :
         /\ ~AppendTooLarge(len)
         /\ cl' = [cl EXCEPT ![c] =
                     [Begin(c, "append", 0, len) EXCEPT
                        !.idx = AppendStartIndex(Len(fileChunks))]]
    /\ nops' = nops + 1
    /\ UNCHANGED <<chunk, dl, ple, fileChunks, replicas, lease, csm, rpc,
                   fails, expires, appended, committed,
                   mgr, copy, ca, alloc>>

\* The slice of Client.Write's loop: the bytes of this chunk.
WriteLen(off, begin, len) ==
    LET writeMax == MaxChunkSize - (off % MaxChunkSize)
    IN IF begin + writeMax > len THEN len - begin ELSE writeMax

\* The start of Client.WriteChunk and Client.AppendChunk:
\* GetPrimaryAndSecondaries (the lease holder, or any replica when no lease
\* is running), then RPCPushDataAndForward on the primary, which stages the
\* data under a fresh DataID there and, by RPCForwardData, on the secondaries.
PushData(c) ==
    LET r == cl[c]
        n == IF r.kind = "write" THEN WriteLen(r.off, r.pos, r.len) ELSE r.len
        did == <<r.h, r.id, r.tries + 1>>
        e == [id |-> did, data |-> Data(r.id, n)]
    IN
    /\ r.pc = "prim"
    /\ \E p \in replicas[r.h] :
         /\ lease[r.h] \in {NoServer, p}
         /\ lease' = [lease EXCEPT ![r.h] = p]
         /\ dl' = [s \in Servers |-> IF s \in replicas[r.h] THEN dl[s] \cup {e} ELSE dl[s]]
         /\ cl' = [cl EXCEPT ![c].pc = "commit", ![c].prim = p,
                             ![c].secs = replicas[r.h] \ {p},
                             ![c].did = did, ![c].tries = r.tries + 1,
                             ![c].wlen = n,
                             ![c].moff = IF r.kind = "write" THEN r.off % MaxChunkSize ELSE 0]
    /\ UNCHANGED <<chunk, ple, fileChunks, replicas, csm, rpc, nops, fails, expires,
                   appended, committed,
                   mgr, copy, ca, alloc>>

DataNotFoundIgnored(e) == FALSE

\* deleteDownloadedData on the entries e that cs.dl.Get found: the error
\* return when there is none, and the bytes returned otherwise (nil with the
\* error).
DataNotFound(e) == e = {}
Fetched(e) == IF e = {} THEN <<>> ELSE (CHOOSE x \in e : TRUE).data

\* RPCWriteChunk and RPCAppendChunk on the primary, from the handler's
\* position pc and with e the entry that deleteDownloadedData's Get found, up
\* to the release of the chunk lock: the entry is deleted, the length is
\* updated, the next version is assigned and the mutation buffered.  An error
\* sends the client back to its retry loop.
CommitFrom(c, pc, e) ==
    LET r == cl[c]
        p == r.prim
        data == Fetched(e)
        ck == chunk[p][r.h]
        nk == IF r.kind = "write" THEN WriteSection(ck, data, r.moff)
              ELSE AppendSection(ck, data)
        mtype == IF r.kind = "write" THEN "Write" ELSE AppendKind(ck.length, Len(data))
        offset == IF r.kind = "write" THEN r.moff ELSE ck.length
        early == \/ DataNotFound(e)
                 \/ r.kind = "write" /\ r.moff + Len(data) > MaxChunkSize
                 \/ r.kind = "append" /\ PrimaryAppendTooLarge(Len(data))
                 \/ ~ck.present
    IN
    /\ r.pc = pc
    /\ dl' = [dl EXCEPT ![p] = @ \ e]
    /\ IF early
       THEN /\ cl' = [cl EXCEPT ![c].pc = "prim"]
            /\ UNCHANGED <<chunk, committed>>
       ELSE /\ ~ck.locked
            /\ chunk' = [chunk EXCEPT ![p][r.h] = nk]
            /\ IF nk.locked
               THEN /\ cl' = [cl EXCEPT ![c].pc = "prim"]
                    /\ UNCHANGED committed
               ELSE /\ cl' = [cl EXCEPT ![c].pc = "drain",
                                ![c].ver = nk.newestVersion,
                                ![c].mtype = mtype,
                                ![c].moff = offset,
                                ![c].code = IF mtype = "Pad"
                                            THEN "AppendExceedChunkSize" ELSE "none"]
                    /\ committed' = committed \cup
                         {[id |-> r.id, h |-> r.h, mtype |-> mtype, off |-> offset,
                           len |-> Len(data)]}
    /\ UNCHANGED <<ple, fileChunks, replicas, lease, csm, rpc, nops, fails,
                   expires, appended,
                   mgr, copy, ca, alloc>>

\* The handler as it runs when no other call names its DataID: Get and Delete
\* of deleteDownloadedData follow each other at once.
Commit(c) == CommitFrom(c, "commit", Staged(cl[c].prim, cl[c].did))

\* deleteDownloadedData in two steps, as it meets another call that names the
\* same DataID: cs.dl.Get ...
CommitGet(c) ==
    /\ cl[c].pc = "commit"
    /\ cl' = [cl EXCEPT ![c].pc = "got", ![c].got = Staged(cl[c].prim, cl[c].did)]
    /\ UNCHANGED <<chunk, dl, ple, fileChunks, replicas, lease, csm, rpc, nops,
                   fails, expires, appended, committed, mgr, copy, ca, alloc>>

\* ... and cs.dl.Delete with the rest of the handler up to Unlock.
CommitDelete(c) == CommitFrom(c, "got", cl[c].got)

\* The primary's doMutation, and CallAll starting one RPCApplyMutation per
\* secondary.
PrimaryApply(c) ==
    LET r == cl[c] IN
    /\ r.pc = "drain"
    /\ ~chunk[r.prim][r.h].locked
    /\ chunk' = [chunk EXCEPT ![r.prim][r.h] = doMutation(@)]
    /\ rpc' = [rpc EXCEPT ![c] = [s \in Servers |-> IF s \in r.secs THEN "sent" ELSE "none"]]
    /\ cl' = [cl EXCEPT ![c].pc = "wait"]
    /\ UNCHANGED <<dl, ple, fileChunks, replicas, lease, csm, nops, fails,
                   expires, appended, committed,
                   mgr, copy, ca, alloc>>

\* RPCApplyMutation on secondary s up to the release of the chunk lock.
ApplyRecv(c, s) ==
    LET r == cl[c]
        e == Staged(s, r.did)
        data == Fetched(e)
        ck == chunk[s][r.h]
        nk == ApplySection(ck, r.mtype, r.ver, data, r.moff)
    IN
    /\ rpc[c][s] = "sent"
    /\ dl' = [dl EXCEPT ![s] = @ \ e]
    /\ IF DataNotFound(e) \/ ~ck.present
       THEN /\ rpc' = [rpc EXCEPT ![c][s] = "failed"]
            /\ UNCHANGED chunk
       ELSE /\ ~ck.locked
            /\ chunk' = [chunk EXCEPT ![s][r.h] = nk]
            /\ rpc' = [rpc EXCEPT ![c][s] = IF nk.locked THEN "failed" ELSE "buffered"]
    /\ UNCHANGED <<ple, fileChunks, replicas, lease, csm, cl, nops, fails,
                   expires, appended, committed,
                   mgr, copy, ca, alloc>>

\* The doMutation that ends RPCApplyMutation; its result is the RPC's.
ApplyDrain(c, s) ==
    /\ rpc[c][s] = "buffered"
    /\ ~chunk[s][cl[c].h].locked
    /\ chunk' = [chunk EXCEPT ![s][cl[c].h] = doMutation(@)]
    /\ rpc' = [rpc EXCEPT ![c][s] = "ok"]
    /\ UNCHANGED <<dl, ple, fileChunks, replicas, lease, csm, cl, nops, fails,
                   expires, appended, committed,
                   mgr, copy, ca, alloc>>

\* util.Call failing for an RPCApplyMutation that never reaches the secondary.
ApplyLost(c, s) ==
    /\ rpc[c][s] = "sent"
    /\ fails < MaxFail
    /\ rpc' = [rpc EXCEPT ![c][s] = "failed"]
    /\ fails' = fails + 1
    /\ UNCHANGED <<chunk, dl, ple, fileChunks, replicas, lease, csm, cl, nops,
                   expires, appended, committed,
                   mgr, copy, ca, alloc>>

\* CallAll has every answer: the primary's handler returns, and the client
\* goes on: it retries after an error, takes the next chunk (a write that
\* goes on, an append that was padded) or returns.
CommitReturn(c) ==
    LET r == cl[c]
        off == r.off + r.wlen
        pos == r.pos + r.wlen
    IN
    /\ r.pc = "wait"
    /\ \A s \in r.secs : rpc[c][s] \in {"ok", "failed"}
    /\ rpc' = [rpc EXCEPT ![c] = [s \in Servers |-> "none"]]
    /\ IF \E s \in r.secs : rpc[c][s] = "failed"
       THEN /\ cl' = [cl EXCEPT ![c].pc = "prim", ![c].ver = 0, ![c].mtype = "none",
                                ![c].code = "none"]
            /\ UNCHANGED <<ple, appended>>
       ELSE /\ ple' = [ple EXCEPT ![r.prim] = @ \cup {r.h}]
            /\ IF r.kind = "write"
               THEN /\ cl' = [cl EXCEPT ![c] =
                               IF pos = r.len THEN Finished(r, "ok", 0, <<>>)
                               ELSE [r EXCEPT !.pc = "handle", !.off = off, !.pos = pos,
                                              !.idx = off \div MaxChunkSize,
                                              !.ver = 0, !.mtype = "none"]]
                    /\ UNCHANGED appended
               ELSE IF r.code = "AppendExceedChunkSize"
               THEN /\ cl' = [cl EXCEPT ![c].pc = "handle", ![c].idx = r.idx + 1,
                                        ![c].ver = 0, ![c].mtype = "none",
                                        ![c].code = "none"]
                    /\ UNCHANGED appended
               ELSE /\ cl' = [cl EXCEPT ![c] =
                               Finished(r, "ok", r.idx * MaxChunkSize + r.moff, <<>>)]
                    /\ appended' = appended \cup
                         {[h |-> r.h, off |-> r.moff, len |-> r.len, id |-> r.id]}
    /\ UNCHANGED <<chunk, dl, fileChunks, replicas, lease, csm, nops, fails,
                   expires, committed,
                   mgr, copy, ca, alloc>>

\* A length that does not stop at the end of the chunk.
ReadLenUnclipped(offset, n) == n

\* Client.ReadChunk's length: what is asked of one chunk.
ReadLen(offset, n) ==
    IF MaxChunkSize - offset > n THEN n ELSE MaxChunkSize - offset

\* Client.ReadChunk on a replica picked at random and RPCReadChunk there, then
\* the client's loop: end-of-file ends the read, a full buffer ends it, else
\* the next chunk.
ReadChunk(c) ==
    LET r == cl[c] IN
    /\ r.pc = "read"
    /\ \E loc \in replicas[r.h] :
         LET ck == chunk[loc][r.h]
             got == ReadAt(ck.file, r.off % MaxChunkSize,
                           ReadLen(r.off % MaxChunkSize, r.len - r.pos))
             n == Len(got.data)
         IN /\ ck.present
            /\ ~ck.locked
            /\ cl' = [cl EXCEPT ![c] =
                        IF got.eof THEN Finished(r, "eof", r.pos + n, r.rdata \o got.data)
                        ELSE IF r.pos + n = r.len
                        THEN Finished(r, "ok", r.pos + n, r.rdata \o got.data)
                        ELSE [r EXCEPT !.pc = "handle", !.off = r.off + n,
                                       !.pos = r.pos + n,
                                       !.idx = (r.off + n) \div MaxChunkSize,
                                       !.rdata = r.rdata \o got.data]]
    /\ UNCHANGED <<chunk, dl, ple, fileChunks, replicas, lease, csm, rpc, nops,
                   fails, expires, appended, committed,
                   mgr, copy, ca, alloc>>

\* The steps of the clients of C and of the chunk servers they call.
StepsOf(C) ==
    \/ \E c \in C : WriteStart(c)
    \/ \E c \in C : ReadStart(c)
    \/ \E c \in C : AppendReject(c)
    \/ \E c \in C : AppendStart(c)
    \/ \E c \in C : GetChunkHandle(c)
    \/ \E c \in C : PushData(c)
    \/ \E c \in C : Commit(c)
    \/ \E c \in C : PrimaryApply(c)
    \/ \E c \in C, s \in Servers : ApplyRecv(c, s)
    \/ \E c \in C, s \in Servers : ApplyDrain(c, s)
    \/ \E c \in C, s \in Servers : ApplyLost(c, s)
    \/ \E c \in C : CommitReturn(c)
    \/ \E c \in C : ReadChunk(c)

Steps == StepsOf(Clients)

Next ==
    \/ Steps
    \/ \E h \in Handles : LeaseExpire(h)

Spec == Init /\ [][Next]_vars

\* ------------------------------------------------------------ re-replication
\* chunkServerManager.Heartbeat: a new address gets an entry with no chunks,
\* a known one a new lastHeartbeat.  It waits for the manager's lock.
Heartbeat(s) ==
    /\ ~mgr.lock
    /\ mgr.res # "panic"
    /\ csm' = [csm EXCEPT ![s] = IF csm[s].reg THEN @
                                 ELSE [reg |-> TRUE, chunks |-> {}]]
    /\ UNCHANGED <<chunk, dl, ple, fileChunks, replicas, lease, cl, rpc, nops,
                   fails, expires, appended, committed, mgr, copy, ca, alloc>>

\* DetectDeadServers names s, whose heartbeat is late, and RemoveServer
\* deletes its entry; the coordinator takes s out of the replica sets and
\* drops the leases s held.  The server itself runs on.
RemoveServer(s) ==
    /\ ~mgr.lock
    /\ mgr.res # "panic"
    /\ copy.pc = "idle"
    /\ csm[s].reg
    /\ copy.removed < MaxRemove
    /\ csm' = [csm EXCEPT ![s] = [reg |-> FALSE, chunks |-> {}]]
    /\ replicas' = [h \in Handles |-> replicas[h] \ {s}]
    /\ lease' = [h \in Handles |-> IF lease[h] = s THEN NoServer ELSE lease[h]]
    /\ copy' = [copy EXCEPT !.removed = @ + 1]
    /\ UNCHANGED <<chunk, dl, ple, fileChunks, cl, rpc, nops, fails, expires,
                   appended, committed, mgr, ca, alloc>>

\* The servers of the map that hold h, and those that do not.
Has(h) == {a \in Servers : csm[a].reg /\ h \in csm[a].chunks}
HasNot(h) == {a \in Servers : csm[a].reg /\ h \notin csm[a].chunks}

ChooseReReplicationAnyTarget(h) ==
    Has(h) \X {a \in Servers : csm[a].reg}

\* chunkServerManager.ChooseReReplication: the (from, to) pairs the loop can
\* return, over the orders in which the map can be ranged over.  The loop
\* returns as soon as both are set, so every holder can be from and every
\* other server to; it returns none exactly when one of the two is missing.
ChooseReReplication(h) == Has(h) \X HasNot(h)

\* The coordinator's scan takes a handle with too few replicas and asks
\* ChooseReReplication for a pair.  ChooseReReplication takes no lock.  When
\* the loop ends without a pair, from or to keeps the last address assigned.
ReChoose(h) ==
    /\ copy.pc = "idle"
    /\ copy.sent < MaxCopy
    /\ replicas[h] # {}
    /\ Cardinality(replicas[h]) < ReplicationFactor
    /\ IF ChooseReReplication(h) = {}
       THEN /\ \E f \in (IF Has(h) = {} THEN {NoServer} ELSE Has(h)) :
               \E t \in (IF HasNot(h) = {} THEN {NoServer} ELSE HasNot(h)) :
                 mgr' = [mgr EXCEPT !.res = "NoCandidates",
                                    !.from = f, !.to = t]
            /\ copy' = [copy EXCEPT !.sent = @ + 1, !.h = h]
       ELSE \E ft \in ChooseReReplication(h) :
              /\ mgr' = [mgr EXCEPT !.res = "ok", !.from = ft[1], !.to = ft[2]]
              /\ copy' = [copy EXCEPT !.pc = "add", !.h = h,
                                      !.from = ft[1], !.to = ft[2]]
    /\ UNCHANGED <<chunk, dl, ple, fileChunks, replicas, lease, csm, cl, rpc,
                   nops, fails, expires, appended, committed, ca, alloc>>

\* chunkServerManager.AddChunk([to], h): takes the manager's lock ...
AddChunkLock ==
    /\ copy.pc = "add"
    /\ ~mgr.lock
    /\ mgr' = [mgr EXCEPT !.lock = TRUE, !.op = "AddChunk", !.h = copy.h,
                          !.todo = {copy.to}, !.call = NoServer, !.res = "none"]
    /\ copy' = [copy EXCEPT !.pc = "adding"]
    /\ UNCHANGED <<chunk, dl, ple, fileChunks, replicas, lease, csm, cl, rpc,
                   nops, fails, expires, appended, committed, ca, alloc>>

\* ... calls RPCCreateChunk on the next address, the lock still held ...
AddChunkCall ==
    /\ mgr.lock /\ mgr.op = "AddChunk" /\ mgr.call = NoServer
    /\ \E v \in mgr.todo : mgr' = [mgr EXCEPT !.call = v, !.todo = @ \ {v}]
    /\ UNCHANGED <<chunk, dl, ple, fileChunks, replicas, lease, csm, cl, rpc,
                   nops, fails, expires, appended, committed, copy, ca, alloc>>

\* csm.servers[v].chunks[handle] = true.  The map holds pointers: for an
\* address that is not in it the statement dereferences nil and panics, the
\* deferred Unlock runs and the process ends.
AddChunkRecord(v) ==
    IF csm[v].reg
    THEN /\ csm' = [csm EXCEPT ![v].chunks = @ \cup {mgr.h}]
         /\ mgr' = [mgr EXCEPT !.call = NoServer]
    ELSE /\ csm' = csm
         /\ mgr' = [mgr EXCEPT !.lock = FALSE, !.op = "none", !.call = NoServer,
                               !.res = "panic"]

\* ... RPCCreateChunk runs there and answers, and the handle is recorded for
\* the address ...
AddChunkReply ==
    LET v == mgr.call IN
    /\ mgr.lock /\ mgr.op = "AddChunk" /\ v # NoServer
    /\ chunk' = [chunk EXCEPT ![v][mgr.h] = RPCCreateChunk(@)]
    /\ AddChunkRecord(v)
    /\ UNCHANGED <<dl, ple, fileChunks, replicas, lease, cl, rpc, nops, fails,
                   expires, appended, committed, copy, ca, alloc>>

\* ... and returns, which releases the lock.
AddChunkUnlock ==
    /\ mgr.lock /\ mgr.op = "AddChunk" /\ mgr.call = NoServer /\ mgr.todo = {}
    /\ mgr' = [mgr EXCEPT !.lock = FALSE, !.op = "none", !.res = "ok"]
    /\ copy' = [copy EXCEPT !.pc = "send"]
    /\ UNCHANGED <<chunk, dl, ple, fileChunks, replicas, lease, csm, cl, rpc,
                   nops, fails, expires, appended, committed, ca, alloc>>

\* RPCSendCopy(h, to) on from, under from's chunk lock, with the RPCApplyCopy
\* it calls on to, under to's.  After a copy the coordinator lists to as a
\* replica of h.
SendCopy ==
    LET h == copy.h
        src == chunk[copy.from][h]
        dst == chunk[copy.to][h]
        refused == SendCopyRefuses(src)
        failed == refused \/ ~dst.present
        log == [from |-> copy.from, to |-> copy.to, h |-> h, src |-> src,
                dst |-> dst, res |-> IF failed THEN "err" ELSE "ok",
                called |-> ~refused]
    IN
    /\ copy.pc = "send"
    /\ src.present => ~src.locked
    /\ IF failed
       THEN UNCHANGED <<chunk, replicas>>
       ELSE /\ ~dst.locked
            /\ chunk' = [chunk EXCEPT ![copy.to][h] =
                            RPCApplyCopy(@, SendCopyData(src).data, src.version)]
            /\ replicas' = [replicas EXCEPT ![h] = @ \cup {copy.to}]
    /\ copy' = [copy EXCEPT !.pc = "idle", !.sent = @ + 1, !.last = log]
    /\ UNCHANGED <<dl, ple, fileChunks, lease, csm, cl, rpc, nops, fails,
                   expires, appended, committed, mgr, ca, alloc>>

\* One client and the chunk servers, with servers declared dead, servers
\* heard of again and chunks re-replicated.
NextCopy ==
    \/ StepsOf({"c1"})
    \/ \E s \in Servers : Heartbeat(s)
    \/ \E s \in Servers : RemoveServer(s)
    \/ \E h \in Handles : ReChoose(h)
    \/ AddChunkLock
    \/ AddChunkCall
    \/ AddChunkReply
    \/ AddChunkUnlock
    \/ SendCopy

SpecCopy == Init /\ [][NextCopy]_vars

\* ------------------------------------------------------------ allocation
\* The coordinator allocates the file's next chunk: ChooseServers, then
\* AddChunk with the addresses it returned, each taking the manager's lock
\* for itself; then the file is extended and a lease granted.  Heartbeat and
\* RemoveServer run beside it.
AllocChoose ==
    /\ alloc.pc = "idle"
    /\ ~mgr.lock
    /\ mgr.res # "panic"
    /\ Len(fileChunks) < MaxChunks
    /\ IF ChooseServers(ReplicationFactor) = {}
       THEN alloc' = [NoAlloc EXCEPT !.res = "err"]
       ELSE \E S \in ChooseServers(ReplicationFactor) :
              alloc' = [NoAlloc EXCEPT !.pc = "chosen", !.h = Len(fileChunks) + 1,
                                       !.addrs = S]
    /\ UNCHANGED <<chunk, dl, ple, fileChunks, replicas, lease, csm, cl, rpc,
                   nops, fails, expires, appended, committed, mgr, copy, ca>>

\* AddChunk(addrs, h) takes the lock.
AllocAddLock ==
    /\ alloc.pc = "chosen"
    /\ ~mgr.lock
    /\ mgr' = [mgr EXCEPT !.lock = TRUE, !.op = "AddChunk", !.h = alloc.h,
                          !.todo = alloc.addrs, !.call = NoServer, !.res = "none"]
    /\ alloc' = [alloc EXCEPT !.pc = "adding"]
    /\ UNCHANGED <<chunk, dl, ple, fileChunks, replicas, lease, csm, cl, rpc,
                   nops, fails, expires, appended, committed, copy, ca>>

\* util.Call returns an error for the RPCCreateChunk in flight; the handle is
\* recorded for the address all the same.
AddChunkCallFails ==
    LET v == mgr.call IN
    /\ mgr.lock /\ mgr.op = "AddChunk" /\ v # NoServer
    /\ alloc.pc = "adding"
    /\ fails < MaxFail
    /\ fails' = fails + 1
    /\ AddChunkRecord(v)
    /\ alloc' = [alloc EXCEPT !.errs = TRUE]
    /\ UNCHANGED <<chunk, dl, ple, fileChunks, replicas, lease, cl, rpc, nops,
                   expires, appended, committed, copy, ca>>

\* AddChunk returns; after nil the coordinator extends the file with the
\* handle and grants the lease to one of the addresses.
AllocAddReturn ==
    /\ alloc.pc = "adding"
    /\ mgr.lock /\ mgr.op = "AddChunk" /\ mgr.call = NoServer /\ mgr.todo = {}
    /\ mgr' = [mgr EXCEPT !.lock = FALSE, !.op = "none",
                          !.res = IF alloc.errs THEN "err" ELSE "ok"]
    /\ alloc' = [alloc EXCEPT !.pc = "idle",
                              !.res = IF alloc.errs THEN "err" ELSE "ok"]
    /\ IF alloc.errs
       THEN UNCHANGED <<fileChunks, replicas, lease>>
       ELSE /\ fileChunks' = Append(fileChunks, alloc.h)
            /\ replicas' = [replicas EXCEPT ![alloc.h] = alloc.addrs]
            /\ \E p \in alloc.addrs : lease' = [lease EXCEPT ![alloc.h] = p]
    /\ UNCHANGED <<chunk, dl, ple, csm, cl, rpc, nops, fails, expires,
                   appended, committed, copy, ca>>

NextAlloc ==
    \/ \E s \in Servers : Heartbeat(s)
    \/ \E s \in Servers : RemoveServer(s)
    \/ AllocChoose
    \/ AllocAddLock
    \/ AddChunkCall
    \/ AddChunkReply
    \/ AddChunkCallFails
    \/ AllocAddReturn

SpecAlloc == Init /\ [][NextAlloc]_vars

\* ------------------------------------------------------------ one DataID, two calls
\* Two commit calls (RPCWriteChunk or RPCAppendChunk) reach the primary s1 of
\* chunk 1 at the same time and name the same DataID, which was staged once on
\* every replica.
DupID == <<1, 1, 1>>

DupCall(id, kind, n, off) ==
    [Idle EXCEPT !.pc = "commit", !.kind = kind, !.id = id, !.off0 = off,
                 !.off = off, !.len = n, !.h = 1, !.prim = "s1", !.secs = {"s2"},
                 !.tries = 1, !.did = DupID, !.wlen = n,
                 !.moff = IF kind = "write" THEN off ELSE 0]

InitDup ==
    \E n \in 1..MaxAppendSize : \E off \in {0, MaxChunkSize - 2} :
    \E k1 \in {"write", "append"} : \E k2 \in {"write", "append"} :
        /\ chunk = [s \in Servers |-> [h \in Handles |->
                      IF h = 1 THEN RPCCreateChunk(NoChunk) ELSE NoChunk]]
        /\ dl = [s \in Servers |-> {[id |-> DupID, data |-> Data(1, n)]}]
        /\ ple = [s \in Servers |-> {}]
        /\ fileChunks = <<1>>
        /\ replicas = [h \in Handles |-> IF h = 1 THEN Servers ELSE {}]
        /\ lease = [h \in Handles |-> IF h = 1 THEN "s1" ELSE NoServer]
        /\ csm = [s \in Servers |-> [reg |-> TRUE, chunks |-> {1}]]
        /\ cl = [c \in Clients |-> IF c = "c1" THEN DupCall(1, k1, n, off)
                                    ELSE DupCall(2, k2, n, off)]
        /\ rpc = [c \in Clients |-> [s \in Servers |-> "none"]]
        /\ nops = MaxOps
        /\ fails = 0
        /\ expires = 0
        /\ appended = {}
        /\ committed = {}
        /\ mgr = IdleMgr
        /\ copy = NoCopy
        /\ alloc = NoAlloc
        /\ ca = NoCallAll

NextDup ==
    \/ \E c \in Clients : CommitGet(c)
    \/ \E c \in Clients : CommitDelete(c)
    \/ \E c \in Clients : PrimaryApply(c)
    \/ \E c \in Clients, s \in Servers : ApplyRecv(c, s)
    \/ \E c \in Clients, s \in Servers : ApplyDrain(c, s)
    \/ \E c \in Clients : CommitReturn(c)

SpecDup == InitDup /\ [][NextDup]_vars

\* ------------------------------------------------------------ util.CallAll
\* One run of CallAll(dst, rpcname, args).  ca.g[i] is the goroutine started
\* for dst[i]: "unborn", "calling" (inside util.Call), "sending" (blocked on
\* ch <- result), "done".  ca.res[i] is what its Call returned.  The channel
\* is unbuffered, so a send and the receive it meets are one step.
MaxDst == 3

KeepLast(err, e) == e

\* if e := <-ch; e != nil { err = e }
KeepErr(err, e) == IF e # "nil" THEN e ELSE err

InitCallAll ==
    /\ \E n \in 0..MaxDst : \E dst \in [1..n -> Servers] :
          ca = [pc |-> "spawn", dst |-> dst, next |-> 1,
                g |-> [i \in 1..n |-> "unborn"],
                res |-> [i \in 1..n |-> "none"], recvd |-> 0, err |-> "nil"]
    /\ chunk = [s \in Servers |-> [h \in Handles |-> NoChunk]]
    /\ dl = [s \in Servers |-> {}]
    /\ ple = [s \in Servers |-> {}]
    /\ fileChunks = <<>>
    /\ replicas = [h \in Handles |-> {}]
    /\ lease = [h \in Handles |-> NoServer]
    /\ csm = [s \in Servers |-> [reg |-> TRUE, chunks |-> {}]]
    /\ cl = [c \in Clients |-> Idle]
    /\ rpc = [c \in Clients |-> [s \in Servers |-> "none"]]
    /\ nops = 0
    /\ fails = 0
    /\ expires = 0
    /\ appended = {}
    /\ committed = {}
    /\ mgr = IdleMgr
    /\ copy = NoCopy
    /\ alloc = NoAlloc

RestOfCallAll ==
    UNCHANGED <<chunk, dl, ple, fileChunks, replicas, lease, csm, cl, rpc,
                nops, fails, expires, appended, committed, mgr, copy, alloc>>

\* for _, d := range dst { go func(addr) {...}(d) }: one iteration.
CallAllGo ==
    /\ ca.pc = "spawn"
    /\ ca.next <= Len(ca.dst)
    /\ ca' = [ca EXCEPT !.g[ca.next] = "calling", !.next = @ + 1]
    /\ RestOfCallAll

\* The first loop is over; the second starts.
CallAllWait ==
    /\ ca.pc = "spawn"
    /\ ca.next > Len(ca.dst)
    /\ ca' = [ca EXCEPT !.pc = "recv"]
    /\ RestOfCallAll

\* Call(addr, rpcname, args, nil) returns in goroutine i, with nil or an error.
CallDone(i) ==
    /\ ca.g[i] = "calling"
    /\ \E r \in {"nil", "err"} :
          ca' = [ca EXCEPT !.g[i] = "sending", !.res[i] = r]
    /\ RestOfCallAll

\* e := <-ch meets goroutine i's ch <- result.
CallAllRecv(i) ==
    /\ ca.pc = "recv"
    /\ ca.recvd < Len(ca.dst)
    /\ ca.g[i] = "sending"
    /\ ca' = [ca EXCEPT !.g[i] = "done", !.recvd = @ + 1,
                        !.err = KeepErr(@, ca.res[i])]
    /\ RestOfCallAll

\* The second loop is over: return.
CallAllReturn ==
    /\ ca.pc = "recv"
    /\ ca.recvd >= Len(ca.dst)
    /\ ca' = [ca EXCEPT !.pc = "returned"]
    /\ RestOfCallAll

NextCallAll ==
    \/ CallAllGo
    \/ CallAllWait
    \/ \E i \in DOMAIN ca.g : CallDone(i)
    \/ \E i \in DOMAIN ca.g : CallAllRecv(i)
    \/ CallAllReturn

SpecCallAll == InitCallAll /\ [][NextCallAll]_vars

\* ------------------------------------------------------------ reading
\* Reads of a file that is at rest.  The file has up to MaxChunks - 1 chunks,
\* each empty, partly filled or full, written once where it holds data and the
\* same on every replica; the byte at position g of the file (from 1) is g.
ChunkLengths == {0, 3, MaxChunkSize}

Layouts == UNION {[1..k -> ChunkLengths] : k \in 0..(MaxChunks - 1)}

StoredChunk(i, n) ==
    [NoChunk EXCEPT !.present = TRUE, !.length = n,
                    !.version = IF n = 0 THEN 0 ELSE 1,
                    !.newestVersion = IF n = 0 THEN 0 ELSE 1,
                    !.file = [j \in 1..n |-> (i - 1) * MaxChunkSize + j],
                    !.drained = IF n = 0 THEN <<>> ELSE <<1>>]

InitRead ==
    \E lens \in Layouts :
        LET k == Len(lens) IN
        /\ chunk = [s \in Servers |-> [h \in Handles |->
                      IF h <= k THEN StoredChunk(h, lens[h]) ELSE NoChunk]]
        /\ dl = [s \in Servers |-> {}]
        /\ ple = [s \in Servers |-> {}]
        /\ fileChunks = [i \in 1..k |-> i]
        /\ replicas = [h \in Handles |-> IF h <= k THEN Servers ELSE {}]
        /\ lease = [h \in Handles |-> IF h <= k THEN "s1" ELSE NoServer]
        /\ csm = [s \in Servers |-> [reg |-> TRUE, chunks |-> 1..k]]
        /\ cl = [c \in Clients |-> Idle]
        /\ rpc = [c \in Clients |-> [s \in Servers |-> "none"]]
        /\ nops = 0
        /\ fails = 0
        /\ expires = 0
        /\ appended = {}
        /\ committed = {}
        /\ mgr = IdleMgr
        /\ copy = NoCopy
        /\ alloc = NoAlloc
        /\ ca = NoCallAll

\* The (offset, length) pairs read of the file at rest.
WideReadMenu == {0, 2, MaxChunkSize, MaxChunkSize + 1, 2 * MaxChunkSize,
                 3 * MaxChunkSize} \X {0, 1, MaxChunkSize + 2}

ReadAny(c) == ReadStartOf(c, WideReadMenu)

NextRead ==
    \/ \E c \in Clients : ReadAny(c)
    \/ \E c \in Clients : GetChunkHandle(c)
    \/ \E c \in Clients : ReadChunk(c)

SpecRead == InitRead /\ [][NextRead]_vars

\* Every handler and every client loop that can take its next step takes it:
\* each runs on a goroutine of its own.  Nothing obliges a client to start an
\* operation, a call to fail or a lease to run out.
Progress ==
    \/ \E c \in Clients : GetChunkHandle(c)
    \/ \E c \in Clients : PushData(c)
    \/ \E c \in Clients : Commit(c)
    \/ \E c \in Clients : PrimaryApply(c)
    \/ \E c \in Clients, s \in Servers : ApplyRecv(c, s)
    \/ \E c \in Clients, s \in Servers : ApplyDrain(c, s)
    \/ \E c \in Clients : CommitReturn(c)
    \/ \E c \in Clients : ReadChunk(c)

\* The system while every lease stays with the replica that first got it.
StableSpec == Init /\ [][Steps]_vars /\ WF_vars(Progress)

\* ------------------------------------------------------------ one appender
\* Appends of one client to a file at rest, with no call failing and no lease
\* running out.  The file has up to MaxChunks - 1 chunks, each empty, one
\* byte short of full, or full, the same on every replica.
AppendLengths == {0, MaxChunkSize - 1, MaxChunkSize}

InitAppend ==
    \E k \in 0..(MaxChunks - 1) : \E lens \in [1..k -> AppendLengths] :
        /\ chunk = [s \in Servers |-> [h \in Handles |->
                      IF h <= k THEN StoredChunk(h, lens[h]) ELSE NoChunk]]
        /\ dl = [s \in Servers |-> {}]
        /\ ple = [s \in Servers |-> {}]
        /\ fileChunks = [i \in 1..k |-> i]
        /\ replicas = [h \in Handles |-> IF h <= k THEN Servers ELSE {}]
        /\ lease = [h \in Handles |-> IF h <= k THEN "s1" ELSE NoServer]
        /\ csm = [s \in Servers |-> [reg |-> TRUE, chunks |-> 1..k]]
        /\ cl = [c \in Clients |-> Idle]
        /\ rpc = [c \in Clients |-> [s \in Servers |-> "none"]]
        /\ nops = 0
        /\ fails = 0
        /\ expires = 0
        /\ appended = {}
        /\ committed = {}
        /\ mgr = IdleMgr
        /\ copy = NoCopy
        /\ alloc = NoAlloc
        /\ ca = NoCallAll

NextAppend ==
    \/ AppendStart("c1")
    \/ GetChunkHandle("c1")
    \/ PushData("c1")
    \/ Commit("c1")
    \/ PrimaryApply("c1")
    \/ \E s \in Servers : ApplyRecv("c1", s)
    \/ \E s \in Servers : ApplyDrain("c1", s)
    \/ CommitReturn("c1")

SpecAppend == InitAppend /\ [][NextAppend]_vars /\ WF_vars(Progress)

\* ------------------------------------------------------------ claims
Holders(h) == {s \in Servers : chunk[s][h].present}

\* C1: any two replicas of a chunk whose applied version is the same hold the
\* same bytes over the whole length the chunk has at that version.
C1_ReplicaBytesAgree ==
    \A h \in Handles : \A s \in Holders(h) : \A t \in Holders(h) :
        chunk[s][h].version = chunk[t][h].version
            => chunk[s][h].file = chunk[t][h].file

\* C2: on every replica, whenever no handler holds the chunk lock, version is
\* at most newestVersion, and the mutation buffer is empty exactly when the
\* two are equal.
C2_VersionCounters ==
    \A h \in Handles : \A s \in Holders(h) :
        ~chunk[s][h].locked =>
            /\ chunk[s][h].version <= chunk[s][h].newestVersion
            /\ (chunk[s][h].mutations = {}
                    <=> chunk[s][h].version = chunk[s][h].newestVersion)

\* C3: on every replica the versions doMutation writes to disk are, in the
\* order it writes them, 1, 2, 3, ...: each is the applied version plus one,
\* none is skipped, whatever order the mutations arrived in.
C3_DrainInVersionOrder ==
    \A h \in Handles : \A s \in Holders(h) :
        LET d == chunk[s][h].drained
        IN \A i \in 1..Len(d) : d[i] = i

\* A mutation reached a replica before its predecessor: its handler ran the
\* drain, which applied nothing, and returned; the predecessor has arrived
\* since and waits for its own drain.
C3_Witness ==
    \E h \in Handles : \E s \in Holders(h) : \E c \in Clients : \E d \in Clients :
        /\ cl[c].pc = "wait" /\ cl[c].h = h /\ rpc[c][s] = "ok"
        /\ cl[d].pc = "wait" /\ cl[d].h = h /\ rpc[d][s] = "buffered"
        /\ cl[d].ver = chunk[s][h].version + 1
        /\ cl[c].ver = chunk[s][h].version + 2
        /\ HasVersion(chunk[s][h], cl[c].ver)
        /\ HasVersion(chunk[s][h], cl[d].ver)

\* The file holds data at offset.
HasRecord(file, offset, data) ==
    /\ Len(file) >= offset + Len(data)
    /\ SubSeq(file, offset + 1, offset + Len(data)) = data

\* No write was committed over the range [off, off + len) of chunk h.
NotOverwritten(h, off, len) ==
    \A m \in committed :
        m.h = h /\ m.mtype = "Write" => (m.off + m.len <= off \/ off + len <= m.off)

\* The primary's RPCAppendChunk returns success to client c in this step.
AppendReturns(c) ==
    /\ cl[c].pc = "wait"
    /\ cl[c].kind = "append"
    /\ cl'[c].pc = "idle"
    /\ cl'[c].res = "ok"

\* C4: at the moment a record append returns success with offset o, every
\* replica of the chunk holds the record at o.
C4_AppendOnEveryReplicaAtReturn ==
    [][\A c \in Clients :
         AppendReturns(c) /\ NotOverwritten(cl[c].h, cl[c].moff, cl[c].len) =>
            \A s \in replicas[cl[c].h] :
                HasRecord(chunk'[s][cl[c].h].file, cl[c].moff, Data(cl[c].id, cl[c].len))]_vars

\* C5: two record appends to one chunk that both returned success do not
\* overlap.
C5_AppendsDoNotOverlap ==
    \A a \in appended : \A b \in appended :
        a.h = b.h /\ a.off < b.off => a.off + a.len <= b.off

\* Client c has read back, as its next operation, the range it had written
\* with success, and no other operation has committed a mutation.
ReadBack(c) ==
    /\ cl[c].pc = "idle"
    /\ cl[c].kind = "read"
    /\ cl[c].res # "err"
    /\ cl[c].prev.kind = "write"
    /\ cl[c].prev.res = "ok"
    /\ cl[c].prev.off0 = cl[c].off0
    /\ cl[c].prev.len = cl[c].len
    /\ \A m \in committed : m.id = cl[c].prev.id

\* C6: a read of the range a write has written, with no other mutation in
\* between, returns the written data, whichever replica it reads.
C6_ReadReturnsWritten ==
    \A c \in Clients :
        ReadBack(c) => cl[c].rdata = Data(cl[c].prev.id, cl[c].prev.len)

\* Secondary s has lost the successor of its applied version of chunk h: the
\* primary has allocated it, s has not buffered it, and no call carries it
\* to s.
Lost(s, h) ==
    LET v == chunk[s][h].version + 1 IN
    /\ s \in replicas[h] /\ lease[h] \in Servers /\ s # lease[h]
    /\ chunk[lease[h]][h].newestVersion >= v
    /\ ~HasVersion(chunk[s][h], v)
    /\ ~\E c \in Clients :
          /\ cl[c].h = h /\ cl[c].ver = v
          /\ \/ cl[c].pc = "drain"
             \/ cl[c].pc = "wait" /\ rpc[c][s] = "sent"

\* While the lease stays where it is, a lost version stays lost whatever the
\* clients do next: the replica's applied version never moves again.
LostStaysLost ==
    [][\A s \in Servers : \A h \in Handles :
          Lost(s, h) => /\ Lost(s, h)'
                        /\ chunk'[s][h].version = chunk[s][h].version]_vars

\* The versions a chunk can reach in a run.
Versions == 1..(MaxOps + MaxFail)

\* C7: on every replica every buffered mutation is applied in the end: the
\* replica does not keep a buffered version forever.
C7_BufferedIsApplied ==
    \A s \in Servers : \A h \in Handles : \A v \in Versions :
        (chunk[s][h].present /\ HasVersion(chunk[s][h], v))
            ~> (chunk[s][h].version >= v)

\* Client c's RPCAppendChunk leaves its locked section with a mutation.
AppendCommits(c) ==
    cl[c].kind = "append" /\ cl[c].pc = "commit" /\ cl'[c].pc = "drain"

\* The primary's handler returns nil to client c, whose call was an append.
AppendHandlerReturns(c) ==
    /\ cl[c].kind = "append" /\ cl[c].pc = "wait" /\ cl'[c].pc # "wait"
    /\ \A s \in cl[c].secs : rpc[c][s] = "ok"

\* Replica s applies, in this step, exactly one mutation of chunk h, a Pad.
AppliesOnePad(s, h) ==
    LET ck == chunk[s][h]
        nk == chunk'[s][h]
    IN /\ Len(nk.drained) = Len(ck.drained) + 1
       /\ \E m \in ck.mutations :
            m.version = nk.drained[Len(nk.drained)] /\ m.mtype = "Pad"

\* C8: an append whose record does not fit the primary's chunk (length +
\* len(data) > MaxChunkSize) makes the primary set the length to MaxChunkSize
\* and buffer a Pad mutation, with AppendExceedChunkSize in the reply; a
\* replica applying a Pad gets length MaxChunkSize and no byte of the record
\* (every byte that changes becomes 0); the client that receives that reply
\* goes to chunk index + 1; and the offset a successful append returns is
\* index * MaxChunkSize + the reply's offset, index being the chunk it
\* succeeded on.
C8_PadAndAdvance ==
    [][ /\ \A c \in Clients :
            AppendCommits(c) =>
                LET p == cl[c].prim
                    h == cl[c].h
                    over == chunk[p][h].length + cl[c].len > MaxChunkSize
                IN /\ over <=> cl'[c].code = "AppendExceedChunkSize"
                   /\ over <=> cl'[c].mtype = "Pad"
                   /\ \E m \in chunk'[p][h].mutations :
                        /\ m.version = cl'[c].ver
                        /\ m.mtype = cl'[c].mtype
                        /\ m.offset = chunk[p][h].length
                   /\ over => chunk'[p][h].length = MaxChunkSize
                   /\ cl'[c].moff = chunk[p][h].length
        /\ \A s \in Servers : \A h \in Handles :
            AppliesOnePad(s, h) =>
                /\ chunk'[s][h].length = MaxChunkSize
                /\ Len(chunk'[s][h].file) = MaxChunkSize
                /\ \A i \in 1..MaxChunkSize :
                     \/ i <= Len(chunk[s][h].file)
                            /\ chunk'[s][h].file[i] = chunk[s][h].file[i]
                     \/ chunk'[s][h].file[i] = 0
        /\ \A c \in Clients :
            AppendHandlerReturns(c) =>
                IF cl[c].code = "AppendExceedChunkSize"
                THEN /\ cl'[c].pc = "handle"
                     /\ cl'[c].idx = cl[c].idx + 1
                     /\ cl'[c].res = "none"
                ELSE /\ cl'[c].pc = "idle"
                     /\ cl'[c].res = "ok"
                     /\ cl[c].h = fileChunks[cl[c].idx + 1]
                     /\ cl'[c].ret = cl[c].idx * MaxChunkSize + cl[c].moff
      ]_vars

\* An append was padded out of the first chunk and succeeded on the second.
C8_Witness ==
    \E c \in Clients :
        /\ cl[c].kind = "append" /\ cl[c].pc = "idle" /\ cl[c].res = "ok"
        /\ cl[c].ret >= MaxChunkSize
        /\ \E m \in committed : m.id = cl[c].id /\ m.mtype = "Pad"
        /\ \A s \in Holders(fileChunks[1]) :
             chunk[s][fileChunks[1]].length = MaxChunkSize

\* Client c starts an operation.
Starts(c) == cl[c].pc = "idle" /\ cl'[c] # cl[c]

\* C9: an append of more than MaxAppendSize bytes returns an error and leaves
\* the coordinator's state, every replica, every download buffer and every
\* call as they were; an append of exactly MaxAppendSize bytes passes the
\* client's check and the primary's.
C9_AppendSizeLimit ==
    [][ \A c \in Clients :
          /\ (Starts(c) /\ cl'[c].kind = "append" /\ cl'[c].len > MaxAppendSize)
                => /\ cl'[c].pc = "idle" /\ cl'[c].res = "err"
                   /\ UNCHANGED <<chunk, dl, ple, fileChunks, replicas, lease,
                                  csm, rpc, appended, committed>>
          /\ (Starts(c) /\ cl'[c].kind = "append" /\ cl'[c].len = MaxAppendSize)
                => cl'[c].pc = "handle" /\ cl'[c].res = "none"
          /\ (/\ cl[c].kind = "append" /\ cl[c].pc = "commit" /\ cl'[c].pc # "commit"
              /\ cl[c].len = MaxAppendSize
              /\ Staged(cl[c].prim, cl[c].did) # {}
              /\ chunk[cl[c].prim][cl[c].h].present)
                => chunk'[cl[c].prim][cl[c].h].newestVersion
                       = chunk[cl[c].prim][cl[c].h].newestVersion + 1
      ]_vars

\* One append was refused for its size, and one of exactly MaxAppendSize bytes
\* has succeeded.
C9_Witness ==
    \E c \in Clients : \E d \in Clients :
        /\ cl[c].kind = "append" /\ cl[c].len > MaxAppendSize /\ cl[c].res = "err"
        /\ cl[d].kind = "append" /\ cl[d].len = MaxAppendSize /\ cl[d].res = "ok"

\* The backing file of the chunk at index i (from 1) of the file.
FileOf(i) ==
    LET h == fileChunks[i]
    IN chunk[CHOOSE s \in replicas[h] : TRUE][h].file

\* E: the position where the file's stored data ends.
StoredEnd ==
    LET ne == {i \in 1..Len(fileChunks) : Len(FileOf(i)) > 0}
    IN IF ne = {} THEN 0
       ELSE LET i == CHOOSE x \in ne : \A y \in ne : y <= x
            IN (i - 1) * MaxChunkSize + Len(FileOf(i))

\* Client c has a finished read.
ReadDone(c) == cl[c].kind = "read" /\ cl[c].pc = "idle"

\* What C10 says of a read of [off, off + len) that returned (ret, res).
EndOfFileRule(off, len, ret, res) ==
    /\ (off <= StoredEnd /\ StoredEnd < off + len)
            => (ret = StoredEnd - off /\ res = "eof")
    /\ off >= StoredEnd => (ret = 0 /\ res = "eof")
    /\ ret <= Max(0, StoredEnd - off)

Contiguous ==
    /\ \A i \in 1..Len(fileChunks) : \A j \in 1..Len(fileChunks) :
         (i < j /\ Len(FileOf(j)) > 0) => Len(FileOf(i)) = MaxChunkSize
    /\ \A h \in Handles : \A s \in replicas[h] : \A t \in replicas[h] :
         chunk[s][h].file = chunk[t][h].file

SendCopyRuns == copy.pc = "send" /\ copy'.pc = "idle"

\* C11: whenever the source's chunk still has buffered mutations, RPCSendCopy
\* returns an error, calls no RPCApplyCopy and leaves the target's chunks as
\* they were, on a primary and on a secondary alike.
C11_SendCopyRefusesBuffered ==
    [][(SendCopyRuns /\ chunk[copy.from][copy.h].mutations # {})
          => /\ copy'.last.res = "err"
             /\ ~copy'.last.called
             /\ chunk'[copy.to] = chunk[copy.to]]_vars

\* The fields of a chunk that the program keeps.
ChunkState(ck) ==
    [length |-> ck.length, version |-> ck.version,
     newestVersion |-> ck.newestVersion, mutations |-> ck.mutations,
     file |-> ck.file]

\* C12: once RPCApplyCopy has applied (handle, data, version) to a replica,
\* applying the same again leaves length, version, newestVersion, mutation
\* buffer and file bytes as they are.
C12_ApplyCopyIdempotent ==
    [][(SendCopyRuns /\ copy'.last.res = "ok")
          => LET got == chunk'[copy.to][copy.h]
                 data == SendCopyData(copy'.last.src).data
                 version == copy'.last.src.version
             IN ChunkState(RPCApplyCopy(got, data, version)) = ChunkState(got)]_vars

\* A copy of at least one byte was applied to a replica that had applied a
\* mutation of its own.
C12_Witness ==
    /\ copy.last # <<>>
    /\ copy.last.res = "ok"
    /\ copy.last.src.length >= 1
    /\ copy.last.dst.version >= 1
    /\ chunk[copy.last.to][copy.last.h].version = copy.last.src.version

\* C13: RPCCreateChunk for a handle the replica already has changes nothing
\* of that chunk (length, version, newestVersion, mutation buffer, file
\* bytes), and AddChunk returns without an error; also after mutations were
\* applied to the chunk.
C13_CreateChunkIdempotent ==
    [][/\ (mgr.call # NoServer /\ mgr'.call = NoServer
              /\ chunk[mgr.call][mgr.h].present)
          => ChunkState(chunk'[mgr.call][mgr.h]) = ChunkState(chunk[mgr.call][mgr.h])
       /\ (mgr.lock /\ ~mgr'.lock) => mgr'.res = "ok"]_vars

\* RPCCreateChunk has just answered for a chunk that had applied a mutation.
C13_Witness ==
    /\ copy.pc = "adding" /\ mgr.lock /\ mgr.call = NoServer /\ mgr.todo = {}
    /\ chunk[copy.to][copy.h].version >= 1
    /\ Len(chunk[copy.to][copy.h].file) >= 1

\* C14: the length recorded for a chunk on a replica never decreases, whatever
\* step is taken.
C14_LengthNeverDecreases ==
    [][\A s \in Servers : \A h \in Handles :
          chunk'[s][h].length >= chunk[s][h].length]_vars

\* A copy shorter than the target's chunk was applied: the target keeps its
\* length.
C14_Witness ==
    /\ copy.last # <<>>
    /\ copy.last.res = "ok"
    /\ copy.last.src.length < copy.last.dst.length
    /\ chunk[copy.last.to][copy.last.h].version = copy.last.src.version
    /\ \E m \in committed : m.mtype = "Pad"

\* The call of client c has created a mutation.
Created(c) == \E m \in committed : m.id = cl[c].id

\* C15: of the commit calls that name one DataID staged once on a replica, at
\* most one obtains the data and creates a mutation there.
C15_DataIDConsumedOnce ==
    \A c \in Clients : \A d \in Clients :
        (c # d /\ cl[c].did = cl[d].did /\ cl[c].prim = cl[d].prim
             /\ Created(c))
            => ~Created(d)

\* A call of ChooseReReplication returns; copy'.h is its handle.
ReChooseRuns ==
    copy.pc = "idle" /\ (copy'.pc = "add" \/ copy'.sent = copy.sent + 1)

\* C16: ChooseReReplication(handle) succeeds exactly when the server map has a
\* server that holds the handle and one that does not; then from holds it, to
\* does not and from # to; otherwise it reports NoCandidates; the map is
\* unchanged either way.
C16_ChooseReReplication ==
    [][ReChooseRuns =>
          LET h == copy'.h
              holds(a) == a \in Servers /\ csm[a].reg /\ h \in csm[a].chunks
              lacks(a) == a \in Servers /\ csm[a].reg /\ h \notin csm[a].chunks
          IN /\ (mgr'.res = "ok") <=>
                    ((\E a \in Servers : holds(a)) /\ (\E a \in Servers : lacks(a)))
             /\ mgr'.res = "ok" =>
                    /\ holds(mgr'.from)
                    /\ lacks(mgr'.to)
                    /\ mgr'.from # mgr'.to
             /\ mgr'.res # "ok" => mgr'.res = "NoCandidates"
             /\ csm' = csm]_vars

\* A pair was chosen after an earlier call had found no candidate.
C16_Witness ==
    /\ copy.pc = "add" /\ copy.sent = 1
    /\ mgr.res = "ok" /\ mgr.from # mgr.to
    /\ Has(copy.h) # {} /\ HasNot(copy.h) # {}

\* C17: the chunk-server manager's lock is never held while an RPC issued by
\* the coordinator (RPCCreateChunk during AddChunk) is in flight.
C17_NoLockAcrossRPC == ~(mgr.lock /\ mgr.call # NoServer)

\* C18: CallAll starts one call per destination, returns only after every
\* call has completed, returns nil exactly when every call returned nil (so
\* nil for an empty list, with nothing received), and leaves no goroutine
\* blocked on the channel when it returns.
C18_CallAllWaitsAndReports ==
    LET n == Len(ca.dst) IN
    /\ ca.pc = "returned" =>
          /\ DOMAIN ca.g = 1..n
          /\ \A i \in 1..n : ca.g[i] = "done" /\ ca.res[i] \in {"nil", "err"}
          /\ (ca.err = "nil") <=> (\A i \in 1..n : ca.res[i] = "nil")
          /\ ca.recvd = n
    /\ (ca.pc \in {"spawn", "recv", "returned"} /\ n = 0) =>
          ca.recvd = 0 /\ ca.err = "nil"

\* CallAll has returned an error from three calls of which at least one
\* returned nil.
C18_Witness ==
    /\ ca.pc = "returned" /\ Len(ca.dst) = 3
    /\ ca.err = "err"
    /\ \E i \in 1..3 : ca.res[i] = "nil"

\* A commit handler of client c on the primary ends its locked part having
\* found no entry for its DataID.
AbsentAtPrimary(c) ==
    \/ cl[c].pc = "got" /\ cl[c].got = {} /\ cl'[c].pc # "got"
    \/ /\ cl[c].pc = "commit" /\ Staged(cl[c].prim, cl[c].did) = {}
       /\ cl'[c].pc \notin {"commit", "got"}

\* RPCApplyMutation of c's mutation runs on s and finds no entry.
AbsentAtSecondary(c, s) ==
    /\ rpc[c][s] = "sent" /\ rpc'[c][s] # "sent" /\ fails' = fails
    /\ Staged(s, cl[c].did) = {}

\* C19: a WriteChunk, AppendChunk or ApplyMutation whose DataID is absent from
\* the replica's download buffer fails and leaves every chunk's length,
\* version, newestVersion, mutation buffer and bytes unchanged; on the primary
\* no ApplyMutation is sent and no handle is registered for lease extension.
C19_MissingDataIDChangesNothing ==
    [][\A c \in Clients :
         /\ AbsentAtPrimary(c) =>
               /\ cl'[c].pc = "prim"
               /\ chunk' = chunk /\ rpc' = rpc /\ ple' = ple
               /\ committed' = committed
         /\ \A s \in Servers :
               AbsentAtSecondary(c, s) =>
                   /\ rpc'[c][s] = "failed"
                   /\ chunk' = chunk /\ ple' = ple]_vars

\* The other call has consumed the DataID and created its mutation; this one
\* found nothing and has failed.
C19_Witness ==
    \E c \in Clients : \E d \in Clients \ {c} :
        /\ cl[c].pc = "prim" /\ cl[c].got = {} /\ ~Created(c)
        /\ cl[d].did = cl[c].did /\ Created(d)

\* C20: RPCAppendChunk on the primary, the chunk being l bytes long and the
\* staged data n bytes, elects Pad exactly when l + n > MaxChunkSize (the
\* length becomes MaxChunkSize, the reply carries AppendExceedChunkSize) and
\* Append otherwise, l + n = MaxChunkSize included (the length becomes l + n);
\* the reply's offset and the offset of the mutation, buffered and forwarded,
\* are l; offset and length are decided in the one locked step.
C20_AppendElection ==
    [][\A c \in Clients :
         AppendCommits(c) =>
             LET p == cl[c].prim
                 h == cl[c].h
                 l == chunk[p][h].length
                 n == Len(Fetched(Staged(p, cl[c].did)))
                 nk == chunk'[p][h]
             IN /\ IF l + n > MaxChunkSize
                   THEN /\ cl'[c].mtype = "Pad"
                        /\ nk.length = MaxChunkSize
                        /\ cl'[c].code = "AppendExceedChunkSize"
                   ELSE /\ cl'[c].mtype = "Append"
                        /\ nk.length = l + n
                        /\ cl'[c].code = "none"
                /\ cl'[c].moff = l
                /\ nk.mutations \ chunk[p][h].mutations =
                      {[mtype |-> cl'[c].mtype, version |-> cl'[c].ver,
                        data |-> Fetched(Staged(p, cl[c].did)), offset |-> l]}
                /\ \A s \in Servers \ {p} : chunk'[s] = chunk[s]]_vars

\* An append whose record ends exactly at MaxChunkSize was elected Append, at
\* an offset other than 0, and has returned that offset.
C20_Witness ==
    \E c \in Clients :
        /\ cl[c].kind = "append" /\ cl[c].pc = "idle" /\ cl[c].res = "ok"
        /\ \E m \in committed :
              /\ m.id = cl[c].id /\ m.mtype = "Append"
              /\ m.off > 0 /\ m.off + m.len = MaxChunkSize
              /\ cl[c].ret = m.off

\* C21: after a successful ApplyCopy(handle, data, version) the target's
\* mutation buffer is empty, its version is the incoming version, its length
\* is len(data) and its content is data, whatever its state was before.
C21_ApplyCopyReplaces ==
    [][(SendCopyRuns /\ copy'.last.res = "ok") =>
          LET src == chunk[copy.from][copy.h]
              data == SendCopyData(src).data
              got == chunk'[copy.to][copy.h]
          IN /\ got.mutations = {}
             /\ got.version = src.version
             /\ got.length = Len(data)
             /\ got.file = data]_vars

\* C22: no chunk lock is held by a handler that has returned: WriteChunk,
\* AppendChunk and ApplyMutation release the lock on every exit path, the
\* rejection of a version already in the buffer included.
C22_LockReleasedOnEveryExit ==
    \A s \in Servers : \A h \in Handles : ~chunk[s][h].locked

\* The primary's RPCWriteChunk or RPCAppendChunk returns nil to client c.
HandlerReturnsNil(c) ==
    /\ cl[c].pc = "wait" /\ cl'[c].pc # "wait"
    /\ \A s \in cl[c].secs : rpc[c][s] = "ok"

\* C23: when the primary's WriteChunk or AppendChunk handler returns success,
\* the primary's applied version is at least the version it assigned to the
\* mutation, and the mutation is no longer in its buffer.
C23_SuccessMeansAppliedOnPrimary ==
    [][\A c \in Clients :
         HandlerReturnsNil(c) =>
             LET ck == chunk[cl[c].prim][cl[c].h]
             IN /\ ck.version >= cl[c].ver
                /\ ~\E m \in ck.mutations :
                       /\ m.version = cl[c].ver
                       /\ m.data = Data(cl[c].id, Len(m.data))]_vars

\* A Client.Read of client c takes a step.
ReadSteps(c) ==
    cl[c].kind = "read" /\ cl[c].pc # "idle" /\ cl'[c] # cl[c]

\* C24: a Client.Read, for any offset and length it accepts, leaves the
\* file's chunk count and the coordinator's chunk directory unchanged; it
\* never causes a chunk handle to be allocated.
C24_ReadHasNoEffect ==
    [][(\E c \in Clients : ReadSteps(c)) =>
          /\ fileChunks' = fileChunks
          /\ replicas' = replicas
          /\ \A s \in Servers : \A h \in Handles :
                chunk'[s][h].present = chunk[s][h].present]_vars

\* The Pad mutations that the running or latest operation of c has caused.
PadsOf(c) == {m \in committed : m.id = cl[c].id /\ m.mtype = "Pad"}

AddChunkRecords == mgr.call # NoServer /\ mgr'.call = NoServer

\* C26: AddChunk(addrs, handle), addrs coming from an earlier ChooseServers,
\* finds every address in the server map when it records membership, never
\* touches the entry of a server RemoveServer has deleted in between, and
\* records the handle for every address whether or not its CreateChunk call
\* failed.
C26_AddChunkFindsEveryAddress ==
    [][AddChunkRecords =>
          /\ csm[mgr.call].reg
          /\ mgr'.res # "panic"
          /\ csm'[mgr.call].reg /\ mgr.h \in csm'[mgr.call].chunks]_vars

====
